---- MODULE Spec2Model ----
(***************************************************************************)
(* SafeClaw security layers 1 and 3.                                       *)
(*                                                                         *)
(* Layer 1 (skill-review.ts): reviewSkillDirectory / reviewSkillFile, the  *)
(* review cache on disk keyed by the SHA-256 of the file content, and the  *)
(* call to the Anthropic messages API.                                     *)
(* Layer 3 (network-policy.ts): loadNetworkAllowlist,                      *)
(* ensureDefaultAllowlist, resolveDomains and getNetworkArgs.              *)
(*                                                                         *)
(* JavaScript values are modelled by what the code can observe of them:    *)
(* a parsed JSON value is a record saying whether it is null, another      *)
(* scalar or an object, and what its `safe`, `issues` and `hash`           *)
(* properties read as.                                                     *)
(***************************************************************************)
EXTENDS Integers, Sequences, FiniteSets, TLC

\* ------------------------------------------------------------------ bounds

\* Concurrent callers of reviewSkillDirectory.
NumProcs == 2
\* Markdown files found by one reviewSkillDirectory call.
MaxFiles == 2

\* Calls of getNetworkArgs made by the container runner.
MaxInvocations == 2

Procs == 1..NumProcs

\* ------------------------------------------------------------ layer 1 data

\* File contents that skill files may have.
Contents == {"docA", "docB"}

\* sha256 hex digest of the content: a fixed injective map on Contents.
fileHash(content) ==
  CASE content = "docA" -> "sha256-a"
    [] content = "docB" -> "sha256-b"

Hashes == {fileHash(c) : c \in Contents}

\* A JavaScript value as reviewSkillFile and reviewSkillDirectory see it.
\*   type    "null" (falsy), "scalar" (a truthy number or string), "object"
\*   safe    what v.safe reads as: "true", "false", "undefined" (no such
\*           property) or "string" (a non-empty string, truthy, not boolean)
\*   issues  what v.issues reads as when it is an array (issuesDefined)
\*   hash    what v.hash reads as ("" when undefined)
JsVal(type, safe, issues, issuesDefined, hash) ==
  [type |-> type, safe |-> safe, issues |-> issues,
   issuesDefined |-> issuesDefined, hash |-> hash]

JsNull == JsVal("null", "undefined", <<>>, FALSE, "")
JsScalar == JsVal("scalar", "undefined", <<>>, FALSE, "")
JsEmptyObject == JsVal("object", "undefined", <<>>, FALSE, "")

\* if (v) ... : null is falsy, objects and the scalars modelled are truthy.
Truthy(v) == v.type # "null"

\* !result.safe in reviewSkillDirectory: undefined and false are falsy.
SafeTruthy(v) == v.safe \in {"true", "string"}

IssueApiFailed == "API call failed, review skipped"
IssueUnparseable == "Unparseable response, review skipped"
IssueFound == "exfiltrates SSH private key"

\* The three object literals callAnthropicReview returns itself.
SkippedNoKey == JsVal("object", "true", <<>>, TRUE, "")
SkippedApiFailed == JsVal("object", "true", <<IssueApiFailed>>, TRUE, "")
SkippedUnparseable == JsVal("object", "true", <<IssueUnparseable>>, TRUE, "")

\* A file of the cache directory: absent, text JSON.parse rejects (or a file
\* readFileSync cannot read), or the text of a JSON value.
AbsentFile == [kind |-> "absent", val |-> JsNull]
GarbageFile == [kind |-> "garbage", val |-> JsNull]
JsonFile(v) == [kind |-> "json", val |-> v]

\* JSON.stringify(result, null, 2): properties whose value is undefined are
\* left out, so they read as undefined again after JSON.parse.
JSONstringify(v) == JsonFile(v)

\* JSON.parse(text): [ok |-> FALSE] stands for the SyntaxError it throws.
JSONparse(file) ==
  IF file.kind = "json" THEN [ok |-> TRUE, val |-> file.val]
  ELSE [ok |-> FALSE, val |-> JsNull]

\* What the text of the first content block of a 200 response can be.
ResponseTexts ==
  {"", "not json", "json-safe", "json-unsafe", "json-null", "json-scalar",
   "json-safe-string"}

\* The file whose text is `text` (the text as JSON.parse is given it).
TextAsFile(text) ==
  CASE text = "json-safe" -> JsonFile(JsVal("object", "true", <<>>, TRUE, ""))
    [] text = "json-unsafe" ->
         JsonFile(JsVal("object", "false", <<IssueFound>>, TRUE, ""))
    [] text = "json-null" -> JsonFile(JsNull)
    [] text = "json-scalar" -> JsonFile(JsScalar)
    [] text = "json-safe-string" ->
         JsonFile(JsVal("object", "string", <<>>, TRUE, ""))
    [] OTHER -> GarbageFile

\* ------------------------------------------------------------ layer 3 data

\* An element of allowed_domains: a string, or another JSON value, which
\* join(',') renders as `text` and dns.resolve4/6 reject.
DomainEntry(text, isString) == [text |-> text, isString |-> isString]

DEFAULT_ALLOWED_DOMAINS ==
  <<DomainEntry("api.anthropic.com", TRUE), DomainEntry("cdn.anthropic.com", TRUE),
    DomainEntry("sentry.io", TRUE), DomainEntry("statsig.anthropic.com", TRUE)>>

\* A NetworkAllowlist value.
Policy(enabled, domains) == [enabled |-> enabled, allowed_domains |-> domains]

DefaultPolicy == Policy(TRUE, DEFAULT_ALLOWED_DOMAINS)

\* The value JSON.parse gives for the text of a config file, as
\* loadNetworkAllowlist sees it.
\*   type         "null", or "object" (scalars and arrays read like an object
\*                that has neither property)
\*   enabled      "true", "false", "undefined", or "other" (any other value,
\*                such as the string "false" or 0)
\*   domainsKind  "array", "undefined", or "other" (not an array)
CfgVal(type, enabled, domainsKind, domains) ==
  [type |-> type, enabled |-> enabled, domainsKind |-> domainsKind,
   domains |-> domains]

CfgNull == CfgVal("null", "undefined", "undefined", <<>>)

CfgAbsent == [kind |-> "absent", val |-> CfgNull]
CfgGarbage == [kind |-> "garbage", val |-> CfgNull]
CfgJson(v) == [kind |-> "json", val |-> v]

\* JSON.stringify(defaultConfig, null, 2) + '\n' for a NetworkAllowlist.
StringifyPolicy(pol) ==
  CfgJson(CfgVal("object", IF pol.enabled THEN "true" ELSE "false", "array",
                 pol.allowed_domains))

\* JSON.parse of the config text: [ok |-> FALSE] is the SyntaxError.
ParseConfig(file) ==
  IF file.kind = "json" THEN [ok |-> TRUE, val |-> file.val]
  ELSE [ok |-> FALSE, val |-> CfgNull]

ExampleDomain == DomainEntry("example.com", TRUE)

\* Config files an administrator may have left.
ConfigFiles ==
  {CfgAbsent, CfgGarbage, CfgJson(CfgNull),
   StringifyPolicy(DefaultPolicy),
   StringifyPolicy(Policy(TRUE, <<ExampleDomain>>)),
   StringifyPolicy(Policy(FALSE, <<ExampleDomain>>)),
   StringifyPolicy(Policy(TRUE, <<>>)),
   CfgJson(CfgVal("object", "false", "undefined", <<>>)),
   CfgJson(CfgVal("object", "other", "other", <<>>)),
   CfgJson(CfgVal("object", "undefined", "array",
                  <<ExampleDomain, DomainEntry("42", FALSE)>>))}

\* What a DNS lookup can do: reject, or resolve to a list of addresses.
DnsFail == [ok |-> FALSE, addrs |-> <<>>]
DnsOk(addrs) == [ok |-> TRUE, addrs |-> addrs]

V4Answers ==
  {DnsFail, DnsOk(<<"93.184.216.34">>), DnsOk(<<"93.184.216.34", "10.0.0.7">>)}
V6Answers == {DnsFail, DnsOk(<<"2606:2800::1">>)}

\* A log event.
LogEvent(level, msg) == [level |-> level, msg |-> msg]

LogParseFailed == LogEvent("warn", "Failed to parse network allowlist, using defaults")
LogDisabled == LogEvent("info", "Network egress restriction disabled")
LogResolveFailed == LogEvent("warn", "Failed to resolve domain for network allowlist")
LogNoIps ==
  LogEvent("warn", "No IPs resolved for allowed domains, skipping network restriction")
LogActive == LogEvent("info", "Network egress whitelist active")

\* ------------------------------------------------------------------- state

VARIABLES
  apiKey,     \* ANTHROPIC_API_KEY is set in .env
  cache,      \* data/skill-review-cache/<hash>.json, per hash
  calls,      \* history: fetch calls issued, per hash
  pc,         \* per caller: where its reviewSkillDirectory call stands
  mdFiles,    \* per caller: contents of the .md files collected
  idx,        \* per caller: index of the file under review
  allSafe,    \* per caller: the accumulator of reviewSkillDirectory
  pending,    \* per caller: the value callAnthropicReview resolved to
  resp,       \* history, per caller: what the service did for this review
  hist,       \* history, per caller: one record per reviewSkillFile call
  after,      \* history, per caller: callers that had ended when it began
  dirResult,  \* per caller: what reviewSkillDirectory returned
  configFile, \* ~/.config/nanoclaw/network-allowlist.json
  cfgWrites,  \* history: writes of the config file
  ensured,    \* how the last ensureDefaultAllowlist call ended
  npc,        \* where the getNetworkArgs call stands
  policy,     \* getNetworkArgs: the policy loadNetworkAllowlist returned
  sawFile,    \* history: kind of config file that load found
  domIdx,     \* resolveDomains: index of the domain being resolved
  ips,        \* resolveDomains: the Set ips, in insertion order
  resolved,   \* history: addresses the lookups of this call answered
  lookups,    \* history: DNS lookups issued by this call
  nlog,       \* log events of this call
  netHist,    \* history: one record per finished getNetworkArgs call
  egressIps,  \* entrypoint.sh: the comma-separated fields of ALLOWED_EGRESS_IPS
  epc,        \* entrypoint.sh: where the script stands
  ruleIdx,    \* entrypoint.sh: index of the iptables command to run next
  chain       \* the rules of the container's OUTPUT chain, in order

rvars == <<apiKey, cache, calls, pc, mdFiles, idx, allSafe, pending, resp,
           hist,
           after, dirResult>>

nvars == <<configFile, cfgWrites, ensured, npc, policy, sawFile, domIdx, ips,
           resolved, lookups, nlog, netHist>>

evars == <<egressIps, epc, ruleIdx, chain>>

vars == <<rvars, nvars, evars>>

\* ------------------------------------------------------- layer 1: the cache

\* A plausible slip: the lookup reads the wrong path and never finds a file.
getCachedReview_NeverFound(hash) == JsNull

\* getCachedReview(hash): null (JsNull) when the file does not exist or
\* JSON.parse throws, and otherwise whatever value the text parses to.
getCachedReview(hash) ==
  IF cache[hash].kind = "absent" THEN JsNull
  ELSE IF JSONparse(cache[hash]).ok THEN JSONparse(cache[hash]).val
  ELSE JsNull

\* A plausible slip: the result is returned without being written.
cacheReview_Skipped(result) == cache

\* cacheReview(result): the cache after writeFileSync of result.hash's file.
cacheReview(result) ==
  [cache EXCEPT ![result.hash] = JSONstringify(result)]

\* const { safe, issues } = v; const result = { safe, issues, hash };
MakeResult(v, hash) ==
  JsVal("object", v.safe, v.issues, v.issuesDefined, hash)

\* A plausible slip: the last file's verdict decides.
AccumulateSafe_LastWins(acc, result) == SafeTruthy(result)

\* if (!result.safe) allSafe = false;
AccumulateSafe(acc, result) == IF ~SafeTruthy(result) THEN FALSE ELSE acc

\* One record of hist: a reviewSkillFile call that returned or threw.
\*   ret     the value returned (JsNull when it threw)
\*   hit     the lookup found a value and returned it
\*   resp    "none" when no fetch was issued, else what the service did
\*   stored  "written", "failed" (cacheReview threw) or "none"
HistEntry(p, outcome, ret, hit, response, stored) ==
  [content |-> mdFiles[p][idx[p]], outcome |-> outcome, ret |-> ret,
   hit |-> hit, resp |-> response, stored |-> stored]

\* ----------------------------------------------------- layer 1: operations

\* reviewSkillFile returned `result` to the loop of reviewSkillDirectory,
\* which updates allSafe and goes on to the next file or returns.
ReviewReturns(p, result, hit) ==
  /\ hist' = [hist EXCEPT ![p] =
       Append(@, HistEntry(p, "returned", result, hit, resp[p],
                           IF hit THEN "none" ELSE "written"))]
  /\ allSafe' = [allSafe EXCEPT ![p] = AccumulateSafe(@, result)]
  /\ pending' = [pending EXCEPT ![p] = JsNull]
  /\ resp' = [resp EXCEPT ![p] = "none"]
  /\ IF idx[p] = Len(mdFiles[p])
     THEN /\ pc' = [pc EXCEPT ![p] = "returned"]
          /\ dirResult' = [dirResult EXCEPT ![p] =
               IF AccumulateSafe(allSafe[p], result) THEN "true" ELSE "false"]
          /\ idx' = idx
     ELSE /\ pc' = [pc EXCEPT ![p] = "review"]
          /\ idx' = [idx EXCEPT ![p] = @ + 1]
          /\ dirResult' = dirResult

\* An exception left reviewSkillFile; reviewSkillDirectory has no handler, so
\* it leaves reviewSkillDirectory too.
ReviewThrows(p, response, stored) ==
  /\ hist' = [hist EXCEPT ![p] =
       Append(@, HistEntry(p, "threw", JsNull, FALSE, response, stored))]
  /\ pc' = [pc EXCEPT ![p] = "threw"]
  /\ pending' = [pending EXCEPT ![p] = JsNull]
  /\ resp' = [resp EXCEPT ![p] = "none"]
  /\ UNCHANGED <<allSafe, idx, dirResult>>

\* reviewSkillDirectory up to its loop: a missing directory and an empty list
\* of .md files both return true.
StartDirectory(p, exists, files) ==
  /\ pc[p] = "idle"
  /\ after' = [after EXCEPT ![p] = {q \in Procs : pc[q] \in {"returned", "threw"}}]
  /\ IF ~exists \/ Len(files) = 0
     THEN /\ pc' = [pc EXCEPT ![p] = "returned"]
          /\ dirResult' = [dirResult EXCEPT ![p] = "true"]
          /\ UNCHANGED <<mdFiles, idx, allSafe>>
     ELSE /\ pc' = [pc EXCEPT ![p] = "review"]
          /\ mdFiles' = [mdFiles EXCEPT ![p] = files]
          /\ idx' = [idx EXCEPT ![p] = 1]
          /\ allSafe' = [allSafe EXCEPT ![p] = TRUE]
          /\ UNCHANGED dirResult
  /\ UNCHANGED <<apiKey, cache, calls, pending, resp, hist>>
  /\ UNCHANGED <<nvars, evars>>

\* reviewSkillFile up to its await: read, hash, look up; on a hit return the
\* cached value, on a miss enter callAnthropicReview, which returns at once
\* without credentials and otherwise issues the fetch.
ReviewLookup(p) ==
  /\ pc[p] = "review"
  /\ LET hash == fileHash(mdFiles[p][idx[p]])
         cached == getCachedReview(hash)
     IN IF Truthy(cached)
        THEN /\ ReviewReturns(p, cached, TRUE)
             /\ UNCHANGED calls
        ELSE IF ~apiKey
        THEN /\ pending' = [pending EXCEPT ![p] = SkippedNoKey]
             /\ resp' = [resp EXCEPT ![p] = "none"]
             /\ pc' = [pc EXCEPT ![p] = "store"]
             /\ UNCHANGED <<calls, hist, allSafe, idx, dirResult>>
        ELSE /\ calls' = [calls EXCEPT ![hash] = @ + 1]
             /\ resp' = [resp EXCEPT ![p] = "sent"]
             /\ pc' = [pc EXCEPT ![p] = "fetch"]
             /\ UNCHANGED <<pending, hist, allSafe, idx, dirResult>>
  /\ UNCHANGED <<apiKey, cache, mdFiles, after>>
  /\ UNCHANGED <<nvars, evars>>

\* What the fetch promise can do: reject, or resolve with response.ok false
\* or true.
FetchOutcomes == {"rejected", "not-ok", "ok"}

FetchSettles(p, outcome) ==
  /\ pc[p] = "fetch"
  /\ CASE outcome = "rejected" ->
            ReviewThrows(p, "rejected", "none")
       [] outcome = "not-ok" ->
            /\ pending' = [pending EXCEPT ![p] = SkippedApiFailed]
            /\ resp' = [resp EXCEPT ![p] = "not-ok"]
            /\ pc' = [pc EXCEPT ![p] = "store"]
            /\ UNCHANGED <<hist, allSafe, idx, dirResult>>
       [] outcome = "ok" ->
            /\ pc' = [pc EXCEPT ![p] = "body"]
            /\ UNCHANGED <<pending, resp, hist, allSafe, idx, dirResult>>
  /\ UNCHANGED <<apiKey, cache, calls, mdFiles, after>>
  /\ UNCHANGED <<nvars, evars>>

\* What response.json() can do: reject (the body cannot be read or is not
\* JSON), resolve to null, or resolve to an object whose
\* content?.[0]?.text?.trim() || '' is one of ResponseTexts.
ResponseBodies ==
  {[kind |-> "unreadable", text |-> ""], [kind |-> "null", text |-> ""]}
    \cup {[kind |-> "message", text |-> t] : t \in ResponseTexts}

\* The rest of callAnthropicReview once the body is in: JSON.parse(text), or
\* the unparseable fallback in its catch.
ParseReviewText(text) ==
  IF JSONparse(TextAsFile(text)).ok
  THEN JSONparse(TextAsFile(text)).val
  ELSE SkippedUnparseable

BodySettles(p, body) ==
  /\ pc[p] = "body"
  /\ IF body.kind \in {"unreadable", "null"}
     THEN ReviewThrows(p, body.kind, "none")
     ELSE /\ pending' = [pending EXCEPT ![p] = ParseReviewText(body.text)]
          /\ resp' = [resp EXCEPT ![p] = body.text]
          /\ pc' = [pc EXCEPT ![p] = "store"]
          /\ UNCHANGED <<hist, allSafe, idx, dirResult>>
  /\ UNCHANGED <<apiKey, cache, calls, mdFiles, after>>
  /\ UNCHANGED <<nvars, evars>>

\* reviewSkillFile after its await: destructure (a TypeError on null), build
\* the result, cacheReview (which throws when the directory or the file
\* cannot be written), return.
ReviewStore(p, writable) ==
  /\ pc[p] = "store"
  /\ LET hash == fileHash(mdFiles[p][idx[p]])
         result == MakeResult(pending[p], hash)
     IN IF pending[p].type = "null"
        THEN /\ ReviewThrows(p, resp[p], "none")
             /\ UNCHANGED cache
        ELSE IF ~writable
        THEN /\ ReviewThrows(p, resp[p], "failed")
             /\ UNCHANGED cache
        ELSE /\ cache' = cacheReview(result)
             /\ ReviewReturns(p, result, FALSE)
  /\ UNCHANGED <<apiKey, calls, mdFiles, after>>
  /\ UNCHANGED <<nvars, evars>>

\* The operator adds or removes ANTHROPIC_API_KEY in .env.
SetApiKey ==
  /\ apiKey' = ~apiKey
  /\ UNCHANGED <<cache, calls, pc, mdFiles, idx, allSafe, pending, resp,
                 hist, after, dirResult>>
  /\ UNCHANGED <<nvars, evars>>

\* Lists of at most MaxFiles file contents.
FileLists == UNION {[1..n -> Contents] : n \in 0..MaxFiles}

\* What a cache file may hold before the first call: nothing, damaged text,
\* or JSON that is no review result. At most one file starts damaged.
StartFiles(hash) ==
  {AbsentFile, GarbageFile, JsonFile(JsNull), JsonFile(JsEmptyObject),
   JsonFile(JsVal("object", "string", <<>>, TRUE, hash))}

InitReview ==
  /\ apiKey \in BOOLEAN
  /\ cache \in {f \in [Hashes -> UNION {StartFiles(h) : h \in Hashes}] :
                  /\ \A h \in Hashes : f[h] \in StartFiles(h)
                  /\ Cardinality({h \in Hashes : f[h] # AbsentFile}) <= 1}
  /\ calls = [h \in Hashes |-> 0]
  /\ pc = [p \in Procs |-> "idle"]
  /\ mdFiles = [p \in Procs |-> <<>>]
  /\ idx = [p \in Procs |-> 0]
  /\ allSafe = [p \in Procs |-> TRUE]
  /\ pending = [p \in Procs |-> JsNull]
  /\ resp = [p \in Procs |-> "none"]
  /\ hist = [p \in Procs |-> <<>>]
  /\ after = [p \in Procs |-> {}]
  /\ dirResult = [p \in Procs |-> "none"]

\* The review cache and its callers before the first call.
ReviewQuiet ==
  /\ apiKey = TRUE
  /\ cache = [h \in Hashes |-> AbsentFile]
  /\ calls = [h \in Hashes |-> 0]
  /\ pc = [p \in Procs |-> "idle"]
  /\ mdFiles = [p \in Procs |-> <<>>]
  /\ idx = [p \in Procs |-> 0]
  /\ allSafe = [p \in Procs |-> TRUE]
  /\ pending = [p \in Procs |-> JsNull]
  /\ resp = [p \in Procs |-> "none"]
  /\ hist = [p \in Procs |-> <<>>]
  /\ after = [p \in Procs |-> {}]
  /\ dirResult = [p \in Procs |-> "none"]

\* ----------------------------------------------------- layer 3: operations

\* A plausible slip: without a config file the domain list is left empty.
loadNetworkAllowlist_NoFallback(file) ==
  IF file.kind = "absent" THEN Policy(TRUE, <<>>) ELSE DefaultPolicy

\* A plausible slip: `enabled` is taken as the stored value is true, so that
\* a missing or non-boolean value disables the policy.
loadNetworkAllowlist_StrictEnabled(file) ==
  IF file.kind # "absent" /\ ParseConfig(file).ok /\ ParseConfig(file).val.type # "null"
  THEN LET data == ParseConfig(file).val
       IN Policy(data.enabled = "true",
                 IF data.domainsKind = "array" THEN data.domains
                 ELSE DEFAULT_ALLOWED_DOMAINS)
  ELSE DefaultPolicy

\* loadNetworkAllowlist(): the policy it returns for a config file. A file
\* that does not parse, and one that parses to null (data.enabled throws),
\* end in the catch and fall through to the defaults.
loadNetworkAllowlist(file) ==
  IF file.kind # "absent" /\ ParseConfig(file).ok /\ ParseConfig(file).val.type # "null"
  THEN LET data == ParseConfig(file).val
       IN Policy(data.enabled # "false",
                 IF data.domainsKind = "array" THEN data.domains
                 ELSE DEFAULT_ALLOWED_DOMAINS)
  ELSE DefaultPolicy

\* What loadNetworkAllowlist logs: the warning of its catch.
LoadLog(file) ==
  IF file.kind # "absent"
     /\ ~(ParseConfig(file).ok /\ ParseConfig(file).val.type # "null")
  THEN <<LogParseFailed>>
  ELSE <<>>

\* A plausible slip: the addresses are collected in a list, not a Set.
AddAll_NoDedup(set, addrs) == set \o addrs

\* ips.add(addr) for each addr: a Set keeps the first insertion of a value.
RECURSIVE AddAll(_, _)
AddAll(set, addrs) ==
  IF Len(addrs) = 0 THEN set
  ELSE AddAll(IF \E i \in 1..Len(set) : set[i] = addrs[1]
              THEN set ELSE Append(set, addrs[1]),
              Tail(addrs))

\* array.join(',') over the texts of the elements.
RECURSIVE Join(_)
Join(texts) ==
  IF Len(texts) = 0 THEN ""
  ELSE IF Len(texts) = 1 THEN texts[1]
  ELSE texts[1] \o "," \o Join(Tail(texts))

DomainTexts(domains) == [i \in 1..Len(domains) |-> domains[i].text]

\* A plausible slip: the test of the flag is inverted.
PolicyDisabled_Inverted(pol) == pol.enabled

\* if (!policy.enabled)
PolicyDisabled(pol) == ~pol.enabled

\* A plausible slip: the check for an empty address list is missing.
ArgsWhenResolved_NoEmptyCheck(pol, allowedIps) ==
  [args |-> <<"--cap-add=NET_ADMIN",
              "-e", "ALLOWED_EGRESS_IPS=" \o Join(allowedIps),
              "-e", "ALLOWED_EGRESS_DOMAINS="
                      \o Join(DomainTexts(pol.allowed_domains))>>,
   log |-> LogActive]

\* A plausible slip: the two environment pairs are emitted in the other order.
ArgsWhenResolved_DomainsFirst(pol, allowedIps) ==
  IF Len(allowedIps) = 0
  THEN [args |-> <<>>, log |-> LogNoIps]
  ELSE [args |-> <<"--cap-add=NET_ADMIN",
                   "-e", "ALLOWED_EGRESS_DOMAINS="
                           \o Join(DomainTexts(pol.allowed_domains)),
                   "-e", "ALLOWED_EGRESS_IPS=" \o Join(allowedIps)>>,
        log |-> LogActive]

\* A plausible slip: the capability grant is returned even when no address
\* resolved.
ArgsWhenResolved_GrantOnEmpty(pol, allowedIps) ==
  IF Len(allowedIps) = 0
  THEN [args |-> <<"--cap-add=NET_ADMIN">>, log |-> LogNoIps]
  ELSE [args |-> <<"--cap-add=NET_ADMIN",
                   "-e", "ALLOWED_EGRESS_IPS=" \o Join(allowedIps),
                   "-e", "ALLOWED_EGRESS_DOMAINS="
                           \o Join(DomainTexts(pol.allowed_domains))>>,
        log |-> LogActive]

\* getNetworkArgs after resolveDomains: the arguments returned and the event
\* logged.
ArgsWhenResolved(pol, allowedIps) ==
  IF Len(allowedIps) = 0
  THEN [args |-> <<>>, log |-> LogNoIps]
  ELSE [args |-> <<"--cap-add=NET_ADMIN",
                   "-e", "ALLOWED_EGRESS_IPS=" \o Join(allowedIps),
                   "-e", "ALLOWED_EGRESS_DOMAINS="
                           \o Join(DomainTexts(pol.allowed_domains))>>,
        log |-> LogActive]

\* One record of netHist.
NetEntry(pol, saw, args, log, res, n) ==
  [policy |-> pol, saw |-> saw, args |-> args, log |-> log, resolved |-> res,
   lookups |-> n]

\* A plausible slip: the Set of addresses lives outside the function and is
\* not cleared between two calls.
NetLocalsReset_KeepsIps ==
  /\ npc' = "idle"
  /\ policy' = DefaultPolicy
  /\ domIdx' = 0
  /\ ips' = ips
  /\ resolved' = {}
  /\ lookups' = 0
  /\ nlog' = <<>>

\* The locals of getNetworkArgs between two calls.
NetLocalsReset ==
  /\ npc' = "idle"
  /\ policy' = DefaultPolicy
  /\ domIdx' = 0
  /\ ips' = <<>>
  /\ resolved' = {}
  /\ lookups' = 0
  /\ nlog' = <<>>

\* getNetworkArgs up to its await: load the policy; disabled returns [] at
\* once, enabled enters resolveDomains.
NetStart ==
  /\ npc = "idle"
  /\ Len(netHist) < MaxInvocations
  /\ LET pol == loadNetworkAllowlist(configFile)
     IN IF PolicyDisabled(pol)
        THEN /\ netHist' = Append(netHist,
                  NetEntry(pol, configFile.kind, <<>>,
                           LoadLog(configFile) \o <<LogDisabled>>, {}, 0))
             /\ UNCHANGED <<npc, policy, domIdx, ips, resolved, lookups, nlog,
                            sawFile>>
        ELSE /\ policy' = pol
             /\ sawFile' = configFile.kind
             /\ nlog' = LoadLog(configFile)
             /\ domIdx' = 1
             /\ npc' = IF Len(pol.allowed_domains) = 0 THEN "finish" ELSE "resolve4"
             /\ UNCHANGED <<ips, resolved, lookups, netHist>>
  /\ UNCHANGED <<configFile, cfgWrites, ensured>>
  /\ UNCHANGED <<rvars, evars>>

\* The lookup of one family for `domain`: dns.resolve4/6 throw at once on an
\* argument that is no string, and otherwise answer as DNS does.
LookupAnswer(domain, answer) == IF domain.isString THEN answer ELSE DnsFail

Range(seq) == {seq[i] : i \in 1..Len(seq)}

\* A plausible slip: the IPv4 lookup is awaited outside a try, so that its
\* rejection leaves resolveDomains and getNetworkArgs.
AfterResolve4_Uncaught(got) == IF got.ok THEN "resolve6" ELSE "threw"

\* Where resolveDomains goes on after the IPv4 lookup: its try/catch handles
\* a rejection, so in both cases with the IPv6 lookup of the same domain.
AfterResolve4(got) == "resolve6"

\* resolveDomains: await dns.resolve4(domain) and its catch.
Resolve4(answer) ==
  /\ npc = "resolve4"
  /\ LET domain == policy.allowed_domains[domIdx]
         got == LookupAnswer(domain, answer)
     IN /\ lookups' = IF domain.isString THEN lookups + 1 ELSE lookups
        /\ IF got.ok
           THEN /\ ips' = AddAll(ips, got.addrs)
                /\ resolved' = resolved \cup Range(got.addrs)
                /\ nlog' = nlog
           ELSE /\ nlog' = Append(nlog, LogResolveFailed)
                /\ UNCHANGED <<ips, resolved>>
        /\ npc' = AfterResolve4(got)
  /\ UNCHANGED <<configFile, cfgWrites, ensured, policy, sawFile, domIdx, netHist>>
  /\ UNCHANGED <<rvars, evars>>

\* resolveDomains: await dns.resolve6(domain) and its silent catch, then the
\* next domain.
Resolve6(answer) ==
  /\ npc = "resolve6"
  /\ LET domain == policy.allowed_domains[domIdx]
         got == LookupAnswer(domain, answer)
     IN /\ lookups' = IF domain.isString THEN lookups + 1 ELSE lookups
        /\ IF got.ok
           THEN /\ ips' = AddAll(ips, got.addrs)
                /\ resolved' = resolved \cup Range(got.addrs)
           ELSE UNCHANGED <<ips, resolved>>
  /\ IF domIdx = Len(policy.allowed_domains)
     THEN npc' = "finish" /\ domIdx' = domIdx
     ELSE npc' = "resolve4" /\ domIdx' = domIdx + 1
  /\ UNCHANGED <<configFile, cfgWrites, ensured, policy, sawFile, nlog, netHist>>
  /\ UNCHANGED <<rvars, evars>>

\* getNetworkArgs after resolveDomains returned [...ips].
NetFinish ==
  /\ npc = "finish"
  /\ LET out == ArgsWhenResolved(policy, ips)
     IN netHist' = Append(netHist,
          NetEntry(policy, sawFile, out.args, Append(nlog, out.log), resolved,
                   lookups))
  /\ NetLocalsReset
  /\ UNCHANGED <<configFile, cfgWrites, ensured, sawFile>>
  /\ UNCHANGED <<rvars, evars>>

\* ensureDefaultAllowlist(): writes the default config when no file exists;
\* mkdirSync or writeFileSync throw when the directory cannot be written.
EnsureDefaultAllowlist(writable) ==
  /\ IF configFile.kind = "absent"
     THEN IF writable
          THEN /\ configFile' = StringifyPolicy(Policy(TRUE, DEFAULT_ALLOWED_DOMAINS))
               /\ cfgWrites' = cfgWrites + 1
               /\ ensured' = "created"
          ELSE /\ ensured' = "threw"
               /\ UNCHANGED <<configFile, cfgWrites>>
     ELSE /\ ensured' = "kept"
          /\ UNCHANGED <<configFile, cfgWrites>>
  /\ UNCHANGED <<npc, policy, sawFile, domIdx, ips, resolved, lookups, nlog,
                 netHist>>
  /\ UNCHANGED <<rvars, evars>>

\* Layer 3 before the first call, with whatever config file there is.
InitNet ==
  /\ configFile \in ConfigFiles
  /\ cfgWrites = 0
  /\ ensured = "never"
  /\ npc = "idle"
  /\ policy = DefaultPolicy
  /\ sawFile = "none"
  /\ domIdx = 0
  /\ ips = <<>>
  /\ resolved = {}
  /\ lookups = 0
  /\ nlog = <<>>
  /\ netHist = <<>>

NetQuiet == InitNet /\ configFile = CfgAbsent

\* ------------------------------------------------ entrypoint.sh: the firewall

\* A rule of the OUTPUT chain: what it matches and its target.
Rule(match, arg, target) == [match |-> match, arg |-> arg, target |-> target]

RuleLoopback == Rule("out-lo", "", "ACCEPT")
RuleEstablished == Rule("state-established-related", "", "ACCEPT")
RuleDnsUdp == Rule("udp-dport-53", "", "ACCEPT")
RuleDnsTcp == Rule("tcp-dport-53", "", "ACCEPT")
RuleAddress(ip) == Rule("dst", ip, "ACCEPT")
RuleDrop == Rule("all", "", "DROP")

\* The iptables -A OUTPUT commands the script runs, in its order, for the
\* fields that `IFS=',' read -ra IPS` splits ALLOWED_EGRESS_IPS into.
Commands(fields) ==
  <<RuleLoopback, RuleEstablished, RuleDnsUdp, RuleDnsTcp>>
    \o [i \in 1..Len(fields) |-> RuleAddress(fields[i])]
    \o <<RuleDrop>>

\* Values of ALLOWED_EGRESS_IPS, as their fields: unset or empty when
\* getNetworkArgs returned no arguments, else the addresses it joined.
EgressValues ==
  {<<>>, <<"93.184.216.34">>, <<"93.184.216.34", "10.0.0.7">>,
   <<"93.184.216.34", "2606:2800::1">>}

\* The addresses iptables, which holds the IPv4 rules, rejects after -d.
IPv6Addresses == UNION {Range(answer.addrs) : answer \in V6Answers}

\* An outbound IPv4 packet.
Packets ==
  [dst : {"93.184.216.34", "10.0.0.7", "203.0.113.9"}, lo : BOOLEAN,
   established : BOOLEAN, proto : {"tcp", "udp"}, dport : {53, 443}]

Matches(rule, pkt) ==
  CASE rule.match = "out-lo" -> pkt.lo
    [] rule.match = "state-established-related" -> pkt.established
    [] rule.match = "udp-dport-53" -> pkt.proto = "udp" /\ pkt.dport = 53
    [] rule.match = "tcp-dport-53" -> pkt.proto = "tcp" /\ pkt.dport = 53
    [] rule.match = "dst" -> pkt.dst = rule.arg
    [] OTHER -> TRUE

\* What the OUTPUT chain does with a packet: the target of the first rule
\* that matches, and the chain's policy, which the script leaves at ACCEPT,
\* when none does.
RECURSIVE Verdict(_, _)
Verdict(rules, pkt) ==
  IF Len(rules) = 0 THEN "ACCEPT"
  ELSE IF Matches(Head(rules), pkt) THEN Head(rules).target
  ELSE Verdict(Tail(rules), pkt)

\* The container starts: if [ -n "$ALLOWED_EGRESS_IPS" ].
EntryStart(fields) ==
  /\ epc = "boot"
  /\ egressIps' = fields
  /\ IF Len(fields) = 0
     THEN epc' = "done" /\ ruleIdx' = ruleIdx
     ELSE epc' = "rules" /\ ruleIdx' = 1
  /\ UNCHANGED chain
  /\ UNCHANGED <<rvars, nvars>>

\* One `iptables -A OUTPUT ... 2>/dev/null || true`: the rule is appended
\* when the command succeeds; when it fails the script goes on all the same.
InstallRule(succeeds) ==
  /\ epc = "rules"
  /\ LET cmd == Commands(egressIps)[ruleIdx]
         installed == succeeds /\ ~(cmd.match = "dst" /\ cmd.arg \in IPv6Addresses)
     IN chain' = IF installed THEN Append(chain, cmd) ELSE chain
  /\ IF ruleIdx = Len(Commands(egressIps))
     THEN epc' = "done" /\ ruleIdx' = ruleIdx
     ELSE epc' = "rules" /\ ruleIdx' = ruleIdx + 1
  /\ UNCHANGED egressIps
  /\ UNCHANGED <<rvars, nvars>>

\* A container that has not started: its OUTPUT chain is empty.
EntryQuiet ==
  /\ egressIps = <<>>
  /\ epc = "boot"
  /\ ruleIdx = 0
  /\ chain = <<>>

\* ---------------------------------------------------------- specifications

\* No reviewSkillDirectory call is under way.
NoneRunning == \A q \in Procs : pc[q] \in {"idle", "returned", "threw"}

\* The steps of a call under way, and of the environment.
ReviewSteps ==
  \/ \E p \in Procs : ReviewLookup(p)
  \/ \E p \in Procs, outcome \in FetchOutcomes : FetchSettles(p, outcome)
  \/ \E p \in Procs, body \in ResponseBodies : BodySettles(p, body)
  \/ \E p \in Procs, writable \in BOOLEAN : ReviewStore(p, writable)
  \/ SetApiKey

InitSpecReview == InitReview /\ NetQuiet /\ EntryQuiet

\* Layer 1, the baseline: one control flow calls reviewSkillFile for one
\* file after the other (each through a directory holding that file).
NextReview ==
  \/ \E p \in Procs, c \in Contents :
       NoneRunning /\ StartDirectory(p, TRUE, <<c>>)
  \/ ReviewSteps

SpecReview == InitSpecReview /\ [][NextReview]_vars

\* Layer 1, one reviewSkillDirectory call over a directory that is missing
\* or holds up to MaxFiles files.
NextDirectory ==
  \/ \E files \in FileLists : StartDirectory(1, TRUE, files)
  \/ StartDirectory(1, FALSE, <<>>)
  \/ ReviewSteps

SpecDirectory == InitSpecReview /\ [][NextDirectory]_vars

\* Bodies the service answers with while callers race.
RaceBodies ==
  {b \in ResponseBodies : b.kind = "unreadable"
                          \/ b.text \in {"json-safe", "json-unsafe"}}

\* Layer 1 with concurrent callers, each reviewing one file.
NextRace ==
  \/ \E p \in Procs, c \in Contents : StartDirectory(p, TRUE, <<c>>)
  \/ \E p \in Procs : ReviewLookup(p)
  \/ \E p \in Procs, outcome \in FetchOutcomes : FetchSettles(p, outcome)
  \/ \E p \in Procs, body \in RaceBodies : BodySettles(p, body)
  \/ \E p \in Procs, writable \in BOOLEAN : ReviewStore(p, writable)
  \/ SetApiKey

SpecRace == InitSpecReview /\ [][NextRace]_vars

\* Layer 1 with concurrent callers, the first of which reviews a directory
\* of up to MaxFiles files, so that a file can be reviewed again after two
\* callers raced on its content.
NextSticky ==
  \/ \E files \in FileLists : StartDirectory(1, TRUE, files)
  \/ \E p \in Procs \ {1}, c \in Contents : StartDirectory(p, TRUE, <<c>>)
  \/ \E p \in Procs : ReviewLookup(p)
  \/ \E p \in Procs, outcome \in FetchOutcomes : FetchSettles(p, outcome)
  \/ \E p \in Procs, body \in RaceBodies : BodySettles(p, body)
  \/ \E p \in Procs, writable \in BOOLEAN : ReviewStore(p, writable)
  \/ SetApiKey

SpecSticky == InitSpecReview /\ [][NextSticky]_vars

\* Layer 3: the container runner calls getNetworkArgs, startup calls
\* ensureDefaultAllowlist.
InitSpecNet == ReviewQuiet /\ InitNet /\ EntryQuiet

NextNet ==
  \/ NetStart
  \/ \E answer \in V4Answers : Resolve4(answer)
  \/ \E answer \in V6Answers : Resolve6(answer)
  \/ NetFinish
  \/ \E writable \in BOOLEAN : EnsureDefaultAllowlist(writable)

SpecNet == InitSpecNet /\ [][NextNet]_vars

\* The container entrypoint, for every value getNetworkArgs may pass.
InitSpecEntry == ReviewQuiet /\ NetQuiet /\ EntryQuiet

NextEntry ==
  \/ \E fields \in EgressValues : EntryStart(fields)
  \/ \E succeeds \in BOOLEAN : InstallRule(succeeds)

SpecEntry == InitSpecEntry /\ [][NextEntry]_vars

\* ------------------------------------------------------ layer 1: properties

\* The finished reviewSkillFile calls, as <<caller, index in hist>>.
Reviews == {r \in Procs \X (1..MaxFiles) : r[2] <= Len(hist[r[1]])}

ReviewAt(r) == hist[r[1]][r[2]]

\* Review a had ended when review b began.
Before(a, b) ==
  \/ a[1] = b[1] /\ a[2] < b[2]
  \/ a[1] # b[1] /\ a[1] \in after[b[1]]

\* Caller p is inside a reviewSkillFile call.
Reviewing(p) == pc[p] \in {"review", "fetch", "body", "store"}

\* A review result as ReviewResult declares it, for content hash h.
IsVerdict(v, h) ==
  /\ v.type = "object"
  /\ v.safe \in {"true", "false"}
  /\ v.issuesDefined
  /\ v.hash = h

\* C1: two reviews of byte-identical content, run one after the other, the
\* first of which called the reasoning service, issue exactly one call in
\* total; the second makes no call and returns the verdict the first
\* returned.
C1_TwoReviewsOneCall ==
  \A a \in Reviews, b \in Reviews :
    LET c == ReviewAt(a).content
    IN (/\ Before(a, b)
        /\ ReviewAt(b).content = c
        /\ Cardinality({r \in Reviews : ReviewAt(r).content = c}) = 2
        /\ ~\E p \in Procs : Reviewing(p) /\ mdFiles[p][idx[p]] = c
        /\ ReviewAt(a).resp # "none")
       => /\ calls[fileHash(c)] = 1
          /\ ReviewAt(b).resp = "none"
          /\ ReviewAt(a).outcome = "returned"
          /\ ReviewAt(b).outcome = "returned"
          /\ ReviewAt(b).ret = ReviewAt(a).ret

\* The cache file of hash h holds a persisted verdict.
HoldsVerdict(h) == cache[h].kind = "json" /\ IsVerdict(cache[h].val, h)

\* C2 as claimed: once a verdict is persisted for a hash, no step changes the
\* cache record of that hash.
C2_VerdictNeverOverwritten ==
  [][\A h \in Hashes : HoldsVerdict(h) => cache'[h] = cache[h]]_vars

\* Review a returned, so the record for its content was on disk then.
ReturnedFor(a, c) ==
  ReviewAt(a).outcome = "returned" /\ ReviewAt(a).content = c

\* C2 as amended: a review that begins after a review of the same content
\* has returned finds the record, returns it without calling the service and
\* writes nothing; only a review that had begun before can replace the
\* record.
C2_LaterReviewOnlyReads ==
  /\ \A a \in Reviews, b \in Reviews :
       (Before(a, b) /\ ReturnedFor(a, ReviewAt(b).content))
         => /\ ReviewAt(b).outcome = "returned"
            /\ ReviewAt(b).hit
            /\ ReviewAt(b).resp = "none"
            /\ ReviewAt(b).stored = "none"
  /\ \A p \in Procs :
       pc[p] \in {"fetch", "body", "store"}
         => ~\E a \in Reviews :
               /\ Before(a, <<p, idx[p]>>)
               /\ ReturnedFor(a, mdFiles[p][idx[p]])

\* C2 witness: a review persisted a verdict, and a review of the same
\* content begun after it returned the record on disk without writing.
C2_Witness ==
  \E a \in Reviews, b \in Reviews :
    /\ Before(a, b)
    /\ ReturnedFor(a, ReviewAt(b).content)
    /\ ~ReviewAt(a).hit
    /\ ReviewAt(b).hit
    /\ ReviewAt(b).ret = cache[fileHash(ReviewAt(b).content)].val

\* Response texts that are not a verdict in the required JSON format.
MalformedTexts == ResponseTexts \ {"json-safe", "json-unsafe"}

\* C3: on a miss, a malformed, empty or non-conforming response makes the
\* review return safe = true with a warning issue (the cache being
\* writable); it never throws and never returns another verdict.
C3_MalformedResponseFailsOpen ==
  \A r \in Reviews :
    (ReviewAt(r).resp \in MalformedTexts /\ ReviewAt(r).stored # "failed")
      => /\ ReviewAt(r).outcome = "returned"
         /\ ReviewAt(r).ret.safe = "true"
         /\ ReviewAt(r).ret.issuesDefined
         /\ Len(ReviewAt(r).ret.issues) > 0

\* C4: a cache entry that is no verdict record is treated as absent: every
\* value a lookup returns as a hit is a verdict record of that hash.
C4_MalformedEntryIsAbsent ==
  \A r \in Reviews :
    ReviewAt(r).hit => IsVerdict(ReviewAt(r).ret, fileHash(ReviewAt(r).content))

\* C5: when the call fails (the request is rejected, the status is not a
\* success, the body cannot be read), the review does not throw: it returns
\* safe = true (the cache being writable).
C5_ServiceErrorFailsOpen ==
  \A r \in Reviews :
    (ReviewAt(r).resp \in {"rejected", "not-ok", "unreadable"}
       /\ ReviewAt(r).stored # "failed")
      => ReviewAt(r).outcome = "returned" /\ ReviewAt(r).ret.safe = "true"

\* C6: when persisting the verdict fails, the review still returns the
\* verdict it obtained.
C6_WriteFailureStillReturns ==
  \A r \in Reviews :
    ReviewAt(r).stored = "failed" => ReviewAt(r).outcome = "returned"

NetCalls == 1..Len(netHist)

\* C8 as claimed: a load that finds no config file persists one.
C8_LoadPersistsDefaults ==
  \A i \in NetCalls : netHist[i].saw = "absent" => configFile.kind # "absent"

\* C8 as amended: a load that finds no config file returns the default
\* policy and writes nothing; ensureDefaultAllowlist writes the default file,
\* at most once, and a load of that file returns the identical policy.
C8_DefaultsLoadedThenEnsured ==
  /\ \A i \in NetCalls : netHist[i].saw = "absent" => netHist[i].policy = DefaultPolicy
  /\ (npc # "idle" /\ sawFile = "absent") => policy = DefaultPolicy
  /\ cfgWrites = 0 =>
       \A i \in NetCalls : netHist[i].saw = "absent" => configFile.kind = "absent"
  /\ cfgWrites <= 1
  /\ cfgWrites = 1 =>
       /\ configFile.kind = "json"
       /\ loadNetworkAllowlist(configFile) = DefaultPolicy
       /\ \A i \in NetCalls, j \in NetCalls :
            (i < j /\ netHist[i].saw = "absent") => netHist[j].policy = netHist[i].policy

\* C8 witness: a load found no file, the file was then created, a second
\* ensureDefaultAllowlist call kept it, and a second load read it.
C8_Witness ==
  /\ cfgWrites = 1
  /\ ensured = "kept"
  /\ \E i \in NetCalls, j \in NetCalls :
       /\ i < j
       /\ netHist[i].saw = "absent"
       /\ netHist[j].saw = "json"
       /\ netHist[j].policy = netHist[i].policy

\* C9: a call whose policy has enabled = false returns no arguments and
\* issues no DNS lookup, whatever its domain list.
C9_DisabledReturnsNoArgs ==
  \A i \in NetCalls :
    ~netHist[i].policy.enabled
      => netHist[i].args = <<>> /\ netHist[i].lookups = 0

\* C9 witness: a call ended with a disabled policy that lists a domain.
C9_Witness ==
  \E i \in NetCalls :
    /\ ~netHist[i].policy.enabled
    /\ Len(netHist[i].policy.allowed_domains) > 0
    /\ netHist[i].args = <<>>

LastOf(seq) == seq[Len(seq)]

\* C10: a call whose policy is enabled and whose lookups answered no address
\* returns no arguments and ends by logging the no-addresses warning, which
\* a disabled call never logs; a disabled call ends by logging the disabled
\* event, which an enabled call never logs.
C10_NoAddressesFailsOpenLogged ==
  /\ LogNoIps # LogDisabled
  /\ \A i \in NetCalls :
       LET e == netHist[i]
       IN IF e.policy.enabled
          THEN /\ LogDisabled \notin Range(e.log)
               /\ e.resolved = {}
                    => e.args = <<>> /\ LastOf(e.log) = LogNoIps
          ELSE /\ LogNoIps \notin Range(e.log)
               /\ LastOf(e.log) = LogDisabled

\* C10 witness: an enabled call looked its domains up, every lookup failed,
\* and it returned no arguments.
C10_Witness ==
  \E i \in NetCalls :
    /\ netHist[i].policy.enabled
    /\ netHist[i].lookups >= 2
    /\ netHist[i].resolved = {}
    /\ netHist[i].args = <<>>

\* The orders in which a Set holding exactly the values of S lists them.
Orderings(S) == {s \in [1..Cardinality(S) -> S] : Range(s) = S}

\* C11: a call whose policy is enabled and whose lookups answered at least
\* one address returns exactly five arguments: the capability grant, "-e",
\* ALLOWED_EGRESS_IPS= followed by the comma-joined addresses answered, each
\* once, "-e", and ALLOWED_EGRESS_DOMAINS= followed by the comma-joined
\* allowed_domains of the policy it loaded.
C11_FiveArguments ==
  \A i \in NetCalls :
    LET e == netHist[i]
    IN (e.policy.enabled /\ e.resolved # {})
       => /\ Len(e.args) = 5
          /\ e.args[1] = "--cap-add=NET_ADMIN"
          /\ e.args[2] = "-e"
          /\ e.args[3] \in {"ALLOWED_EGRESS_IPS=" \o Join(s) : s \in Orderings(e.resolved)}
          /\ e.args[4] = "-e"
          /\ e.args[5] = "ALLOWED_EGRESS_DOMAINS="
                           \o Join(DomainTexts(e.policy.allowed_domains))
          /\ (e.resolved = {"93.184.216.34", "10.0.0.7"}
                /\ e.policy.allowed_domains = <<ExampleDomain>>)
             => e.args \in
                  {<<"--cap-add=NET_ADMIN",
                     "-e", "ALLOWED_EGRESS_IPS=93.184.216.34,10.0.0.7",
                     "-e", "ALLOWED_EGRESS_DOMAINS=example.com">>,
                   <<"--cap-add=NET_ADMIN",
                     "-e", "ALLOWED_EGRESS_IPS=10.0.0.7,93.184.216.34",
                     "-e", "ALLOWED_EGRESS_DOMAINS=example.com">>}

\* C11 witness: the policy lists example.com, which resolved to
\* 93.184.216.34 alone, and the call returned the five arguments.
C11_Witness ==
  \E i \in NetCalls :
    /\ netHist[i].policy = Policy(TRUE, <<ExampleDomain>>)
    /\ netHist[i].resolved = {"93.184.216.34"}
    /\ netHist[i].args = <<"--cap-add=NET_ADMIN",
                           "-e", "ALLOWED_EGRESS_IPS=93.184.216.34",
                           "-e", "ALLOWED_EGRESS_DOMAINS=example.com">>

\* The string entries among the first n domains of pol: the domains a DNS
\* lookup can be issued for.
StringDomains(pol, n) ==
  Cardinality({k \in 1..n : pol.allowed_domains[k].isString})

\* C12: resolveDomains issues an IPv4 and an IPv6 lookup for every domain of
\* the list, whatever the earlier lookups did; no lookup failure aborts it or
\* makes it raise; and the addresses it holds are exactly those the lookups
\* answered so far, each once (none when nothing resolved).
C12_ResolveAllDomains ==
  /\ npc # "threw"
  /\ Range(ips) = resolved
  /\ \A a \in 1..Len(ips), b \in 1..Len(ips) : ips[a] = ips[b] => a = b
  /\ npc = "resolve4" => lookups = 2 * StringDomains(policy, domIdx - 1)
  /\ npc = "resolve6" =>
       lookups = 2 * StringDomains(policy, domIdx - 1)
                   + (IF policy.allowed_domains[domIdx].isString THEN 1 ELSE 0)
  /\ npc = "finish" =>
       lookups = 2 * StringDomains(policy, Len(policy.allowed_domains))
  /\ \A i \in NetCalls :
       LET e == netHist[i]
       IN e.policy.enabled =>
            /\ e.lookups = 2 * StringDomains(e.policy, Len(e.policy.allowed_domains))
            /\ e.resolved = {} <=> e.args = <<>>
            /\ e.resolved # {} =>
                 e.args[3] \in {"ALLOWED_EGRESS_IPS=" \o Join(s) : s \in Orderings(e.resolved)}

\* C12 witness: the four default domains were looked up, eight lookups in
\* all; the IPv4 lookup of one domain failed (it is logged) and lookups of
\* other domains answered the same address, which the result lists once.
C12_Witness ==
  \E i \in NetCalls :
    /\ netHist[i].policy = DefaultPolicy
    /\ netHist[i].lookups = 8
    /\ LogResolveFailed \in Range(netHist[i].log)
    /\ netHist[i].resolved = {"93.184.216.34", "2606:2800::1"}
    /\ netHist[i].args[3] \in {"ALLOWED_EGRESS_IPS=93.184.216.34,2606:2800::1",
                               "ALLOWED_EGRESS_IPS=2606:2800::1,93.184.216.34"}

\* C13: a load that finds a config file corrects each field on its own.
\* `enabled` is false only for the stored boolean false, and true for every
\* other stored value and when missing; allowed_domains is the stored value
\* when that is an array and the default list otherwise; a file that cannot
\* be parsed (or parses to null) gives the whole default policy and the
\* warning of the catch, and the call goes on. The file a finished or running
\* call found is still the config file, since only an absent file is ever
\* written.
C13_FieldwiseCorrection ==
  LET Corrected(pol, log) ==
        IF configFile.kind = "json" /\ configFile.val.type = "object"
        THEN /\ pol.enabled = (configFile.val.enabled # "false")
             /\ ~pol.enabled <=> configFile.val.enabled = "false"
             /\ pol.allowed_domains =
                  IF configFile.val.domainsKind = "array"
                  THEN configFile.val.domains ELSE DEFAULT_ALLOWED_DOMAINS
             /\ LogParseFailed \notin Range(log)
        ELSE /\ pol = Policy(TRUE, DEFAULT_ALLOWED_DOMAINS)
             /\ log[1] = LogParseFailed
  IN /\ \A i \in NetCalls :
          netHist[i].saw # "absent" => Corrected(netHist[i].policy, netHist[i].log)
     /\ (npc # "idle" /\ sawFile # "absent") => Corrected(policy, nlog)
     /\ npc # "threw"

\* C13 witness: a load found a file that stores a non-boolean under enabled
\* and a non-array under allowed_domains, and returned an enabled policy over
\* the default domains without the warning of the catch.
C13_Witness ==
  /\ configFile = CfgJson(CfgVal("object", "other", "other", <<>>))
  /\ \E i \in NetCalls :
       /\ netHist[i].saw = "json"
       /\ netHist[i].policy = Policy(TRUE, DEFAULT_ALLOWED_DOMAINS)
       /\ LogParseFailed \notin Range(netHist[i].log)

\* One reviewSkillDirectory call whose own synchronous steps are always
\* taken; when, and whether, the reasoning service answers is up to the
\* service, and the source arms no timer that would end the wait.
SpecDirectoryLive ==
  /\ InitSpecReview
  /\ [][NextDirectory]_vars
  /\ WF_vars(\E p \in Procs : ReviewLookup(p))
  /\ WF_vars(\E p \in Procs, writable \in BOOLEAN : ReviewStore(p, writable))

\* C14: every review that has begun ends, even when the reasoning service
\* never answers.
C14_EveryReviewTerminates ==
  \A p \in Procs : Reviewing(p) ~> ~Reviewing(p)

\* C15: when two reviews of the same content, neither of which had ended
\* when the other began, both missed the cache and called the service, then
\* once both have ended a verdict is persisted under the content's hash.
C15_RacePersistsVerdict ==
  \A a \in Reviews, b \in Reviews :
    (/\ a[1] # b[1]
     /\ ReviewAt(a).content = ReviewAt(b).content
     /\ ~Before(a, b) /\ ~Before(b, a)
     /\ ReviewAt(a).resp # "none" /\ ReviewAt(b).resp # "none")
    => HoldsVerdict(fileHash(ReviewAt(a).content))

\* Every address a lookup may answer.
AllAddresses ==
  UNION {Range(answer.addrs) : answer \in V4Answers \cup V6Answers}

\* The ALLOWED_EGRESS_IPS argument for a Set holding exactly the addresses S.
AddressArgs(S) == {"ALLOWED_EGRESS_IPS=" \o Join(s) : s \in Orderings(S)}

\* C16: the address list of a call is built from the answers to that call's
\* own lookups. Between two calls the Set is empty, and a later call lists
\* exactly what its lookups answered: an address that an earlier call
\* resolved and this one did not is not in its list.
C16_AddressesRecomputed ==
  /\ npc = "idle" => ips = <<>>
  /\ \A i \in NetCalls, j \in NetCalls :
       LET e == netHist[j]
       IN (i < j /\ e.policy.enabled) =>
            /\ e.resolved = {} => e.args = <<>>
            /\ e.resolved # {} => e.args[3] \in AddressArgs(e.resolved)
            /\ \A a \in netHist[i].resolved \ e.resolved :
                 \A S \in SUBSET AllAddresses :
                   (a \in S /\ e.args # <<>>) => e.args[3] \notin AddressArgs(S)

\* C16 witness: example.com resolved to two addresses in one call and to one
\* of them in the next call, whose list holds that one address only.
C16_Witness ==
  \E i \in NetCalls, j \in NetCalls :
    /\ i < j
    /\ netHist[i].policy = Policy(TRUE, <<ExampleDomain>>)
    /\ netHist[j].policy = netHist[i].policy
    /\ netHist[i].resolved = {"93.184.216.34", "10.0.0.7"}
    /\ netHist[j].resolved = {"93.184.216.34"}
    /\ netHist[j].args[3] = "ALLOWED_EGRESS_IPS=93.184.216.34"

\* C17: whatever the config file holds and whatever each DNS lookup does,
\* getNetworkArgs does not raise: the policy it loaded has a boolean flag and
\* a list of domains, so that the loop and the join are defined; after any
\* answer to a lookup, a failure included, the call can go on; and every
\* finished call returned a list of no or five arguments.
C17_NeverFatal ==
  /\ npc \in {"idle", "resolve4", "resolve6", "finish"}
  /\ policy.enabled \in BOOLEAN
  /\ DOMAIN policy.allowed_domains = 1..Len(policy.allowed_domains)
  /\ npc = "resolve4" => \A answer \in V4Answers : ENABLED Resolve4(answer)
  /\ npc = "resolve6" => \A answer \in V6Answers : ENABLED Resolve6(answer)
  /\ npc = "finish" => ENABLED NetFinish
  /\ \A i \in NetCalls :
       /\ netHist[i].saw \in {"absent", "garbage", "json"}
       /\ Len(netHist[i].args) \in {0, 5}

\* C17 witness: the config file lists example.com and an entry that is no
\* string; both lookups of example.com failed, none could be issued for the
\* other entry, and the call returned no arguments.
C17_Witness ==
  \E i \in NetCalls :
    /\ netHist[i].policy.allowed_domains = <<ExampleDomain, DomainEntry("42", FALSE)>>
    /\ netHist[i].lookups = 2
    /\ netHist[i].resolved = {}
    /\ netHist[i].args = <<>>

\* C18: whenever a review that missed the cache returns, the step that
\* returns leaves, under the hash of the reviewed content, the record of the
\* value returned, whose hash field is that hash; this holds for a verdict
\* parsed from the service's answer and for the fail-open verdicts alike.
C18_ReturnedVerdictPersisted ==
  [][\A p \in Procs :
       Len(hist'[p]) = Len(hist[p]) + 1 =>
         LET e == hist'[p][Len(hist'[p])]
             h == fileHash(e.content)
         IN (e.outcome = "returned" /\ ~e.hit) =>
              /\ e.ret.hash = h
              /\ JSONparse(cache'[h]).ok
              /\ JSONparse(cache'[h]).val = e.ret
              /\ JSONparse(cache'[h]).val.hash = h]_vars

\* C18 witness: the service answered with a failure status, the review
\* returned the fail-open verdict, and the cache holds it under the hash.
C18_Witness ==
  \E r \in Reviews :
    LET e == ReviewAt(r)
    IN /\ e.outcome = "returned" /\ ~e.hit
       /\ e.resp = "not-ok"
       /\ e.ret.safe = "true" /\ e.ret.issues = <<IssueApiFailed>>
       /\ cache[fileHash(e.content)] = JSONstringify(e.ret)
       /\ e.ret.hash = fileHash(e.content)

\* The event that ends a getNetworkArgs call, one per terminal state.
TerminalEvents == {LogDisabled, LogNoIps, LogActive}

\* C19: each call goes LoadPolicy -> Disabled, or LoadPolicy -> Enabled ->
\* ResolveAddresses -> EmptyResult or NonEmptyResult. Lookups are issued only
\* inside a call that has loaded an enabled policy; a finished call logged
\* exactly one terminal event, as its last: Disabled exactly when the policy
\* is disabled (and then without any lookup), EmptyResult exactly when it is
\* enabled and nothing resolved, NonEmptyResult exactly when it is enabled
\* and something resolved; and arguments are returned in NonEmptyResult only.
C19_InvocationStateMachine ==
  /\ lookups > 0 => npc \in {"resolve4", "resolve6", "finish"} /\ policy.enabled
  /\ npc \in {"resolve4", "resolve6", "finish"} =>
       /\ policy.enabled
       /\ \A k \in 1..Len(nlog) : nlog[k] \notin TerminalEvents
  /\ \A i \in NetCalls :
       LET e == netHist[i]
       IN /\ Cardinality({k \in 1..Len(e.log) : e.log[k] \in TerminalEvents}) = 1
          /\ LastOf(e.log) \in TerminalEvents
          /\ LastOf(e.log) = LogDisabled <=> ~e.policy.enabled
          /\ LastOf(e.log) = LogDisabled => e.lookups = 0
          /\ LastOf(e.log) = LogNoIps <=> (e.policy.enabled /\ e.resolved = {})
          /\ LastOf(e.log) = LogActive <=> (e.policy.enabled /\ e.resolved # {})
          /\ e.args # <<>> <=> LastOf(e.log) = LogActive

\* C19 witness: two calls over the same enabled policy, one ending in
\* EmptyResult without arguments and one in NonEmptyResult with arguments.
C19_Witness ==
  \E i \in NetCalls, j \in NetCalls :
    /\ netHist[i].policy = netHist[j].policy
    /\ LastOf(netHist[i].log) = LogNoIps /\ netHist[i].args = <<>>
    /\ netHist[i].lookups > 0
    /\ LastOf(netHist[j].log) = LogActive /\ Len(netHist[j].args) = 5

\* C20: once the entrypoint has run with a non-empty ALLOWED_EGRESS_IPS, the
\* OUTPUT chain accepts loopback, established and port-53 packets, drops
\* every other packet whose destination is not in the list, and holds its
\* ACCEPT rules before its DROP rule, whichever commands failed.
C20_EgressChainEnforced ==
  (epc = "done" /\ Len(egressIps) > 0) =>
    /\ \A pkt \in Packets :
         /\ (pkt.lo \/ pkt.established \/ pkt.dport = 53)
              => Verdict(chain, pkt) = "ACCEPT"
         /\ (/\ ~pkt.lo /\ ~pkt.established /\ pkt.dport # 53
             /\ pkt.dst \notin Range(egressIps))
              => Verdict(chain, pkt) = "DROP"
    /\ \A a \in 1..Len(chain), b \in 1..Len(chain) :
         (chain[a].target = "ACCEPT" /\ chain[b].target = "DROP") => a < b

\* A finished review that missed the cache and returned a fail-open verdict:
\* credentials were absent (no fetch was issued), the service answered with a
\* failure status, or its answer could not be parsed.
FailedOpen(r) ==
  /\ ReviewAt(r).outcome = "returned"
  /\ ~ReviewAt(r).hit
  /\ ReviewAt(r).resp \in {"none", "not-ok", "", "not json"}

\* Caller p takes the step that begins its next review (ReviewLookup).
BeginsReview(p) ==
  /\ pc[p] = "review"
  /\ pc'[p] # "review" \/ Len(hist'[p]) = Len(hist[p]) + 1

\* The step with which p begins a review is a cache hit that returns v and
\* calls nothing.
HitReturning(p, v) ==
  /\ Len(hist'[p]) = Len(hist[p]) + 1
  /\ hist'[p][Len(hist'[p])].hit
  /\ hist'[p][Len(hist'[p])].outcome = "returned"
  /\ hist'[p][Len(hist'[p])].ret = v
  /\ calls' = calls
  /\ cache' = cache

\* C21 as claimed: once a review of some content has returned a fail-open
\* verdict, every review of the same content that begins later is a cache
\* hit that calls nothing and returns a safe verdict, with or without
\* credentials.
C21_FailOpenVerdictSticky ==
  [][\A p \in Procs : BeginsReview(p) =>
       \A a \in Reviews :
         (FailedOpen(a) /\ ReviewAt(a).content = mdFiles[p][idx[p]])
           => /\ ReviewAt(a).ret.safe = "true"
              /\ \E v \in {getCachedReview(fileHash(mdFiles[p][idx[p]]))} :
                   v.safe = "true" /\ HitReturning(p, v)]_vars

\* C21 as amended: a fail-open verdict that a review returned is safe and
\* was persisted; a review of the same content that begins while the record
\* still holds that verdict is a cache hit returning it without a call, with
\* or without credentials; and the record of a hash that holds a verdict is
\* replaced only by the store of a review of that content that was already
\* under way, having missed the cache before the record was written.
C21_StickyUntilOverwritten ==
  [][/\ \A p \in Procs : BeginsReview(p) =>
          \A a \in Reviews :
            (/\ FailedOpen(a) /\ ReviewAt(a).content = mdFiles[p][idx[p]]
             /\ cache[fileHash(ReviewAt(a).content)] = JSONstringify(ReviewAt(a).ret))
              => /\ ReviewAt(a).ret.safe = "true"
                 /\ HitReturning(p, ReviewAt(a).ret)
     /\ \A p \in Procs :
          (/\ Len(hist'[p]) = Len(hist[p]) + 1
           /\ hist'[p][Len(hist'[p])].outcome = "returned"
           /\ ~hist'[p][Len(hist'[p])].hit
           /\ hist'[p][Len(hist'[p])].resp \in {"none", "not-ok", "", "not json"})
            => /\ hist'[p][Len(hist'[p])].ret.safe = "true"
               /\ cache'[fileHash(mdFiles[p][idx[p]])]
                    = JSONstringify(hist'[p][Len(hist'[p])].ret)
     /\ \A h \in Hashes :
          (HoldsVerdict(h) /\ cache'[h] # cache[h])
            => \E p \in Procs :
                 /\ pc[p] = "store" /\ pc'[p] # "store"
                 /\ fileHash(mdFiles[p][idx[p]]) = h]_vars

\* C21 witness: a review made without credentials returned the fail-open
\* verdict; credentials were then added, and a later review of the same
\* content by another caller returned that verdict from the cache; no call
\* was ever issued for the content.
C21_Witness ==
  \E a \in Reviews, b \in Reviews :
    /\ Before(a, b)
    /\ FailedOpen(a) /\ ReviewAt(a).resp = "none"
    /\ ReviewAt(b).content = ReviewAt(a).content
    /\ ReviewAt(b).hit /\ ReviewAt(b).ret = ReviewAt(a).ret
    /\ ReviewAt(b).ret.safe = "true"
    /\ apiKey
    /\ calls[fileHash(ReviewAt(a).content)] = 0

====
